---- MODULE Spec2Model ----
(***************************************************************************)
(* Positionless cursors over a partitioned range.                          *)
(*                                                                         *)
(* positions of the base range are 0..n (n is the past-the-end position);  *)
(* the element at position p is data[p + 1].  boundaries_ is the vector of *)
(* partitioning, parts_mapping_ the handle table of algorithm_data, and    *)
(* cursors the partitioning_iterator objects that currently exist.         *)
(* A failed PRECONDITION terminates the program: aborted becomes TRUE and  *)
(* nothing happens afterwards.  Clients reach the table through the        *)
(* factory or through create_begin_iterator / create_end_iterator and the  *)
(* cursor constructor; handles 0 and 1 are never handed out.               *)
(***************************************************************************)
EXTENDS Integers, Sequences, FiniteSets, Bags, TLC

\* ---------------------------------------------------------------- bounds
MaxN == 2          \* largest range size explored
MaxParts == 3      \* copy_iterator is not called once parts_count() reaches it
MaxCursors == 2    \* number of cursor objects that can exist at once
MaxData == 3       \* largest range size explored for the element algorithms

\* the element stored at index i of the underlying sequence (all distinct)
ElementAt(i) == 10 * i

\* size_t is modelled with 16 bits, so that i + 1 and part - 1 wrap
SizeModulus == 65536
tombstone_part == SizeModulus - 1

VARIABLES
  n,               \* size of the underlying range
  data,            \* the underlying sequence
  boundaries_,     \* partitioning::boundaries_
  parts_mapping_,  \* algorithm_data::parts_mapping_
  cursors,         \* the bag of partitioning_iterator objects that exist
  aborted,         \* a PRECONDITION failed
  made,            \* make_partitioning_iterators was called on this table
  last             \* the operation that produced this state

vars == <<n, data, boundaries_, parts_mapping_, cursors, aborted, made, last>>

\* --------------------------------------------------- partitioning (pure)
\* a partitioning value is [b |-> boundaries, ok |-> no PRECONDITION failed]

Partitioning(b) == [b |-> b, ok |-> TRUE]

Wrap(x) == x % SizeModulus

parts_count(b) == Len(b) - 1

part(b, i) == <<b[i + 1], b[i + 2]>>

is_part_empty(b, i) == part(b, i)[1] = part(b, i)[2]

part_size(b, i) == b[i + 2] - b[i + 1]

\* a grow that moves the start boundary of part i instead of its end
grow_start(p, i) ==
  LET j == Wrap(i + 1) IN
  IF ~p.ok THEN p
  ELSE IF ~(j < parts_count(p.b)) THEN [p EXCEPT !.ok = FALSE]
  ELSE IF is_part_empty(p.b, j) THEN [p EXCEPT !.ok = FALSE]
  ELSE [p EXCEPT !.b[i + 1] = @ + 1]

grow(p, i) ==
  LET j == Wrap(i + 1) IN
  IF ~p.ok THEN p
  ELSE IF ~(j < parts_count(p.b)) THEN [p EXCEPT !.ok = FALSE]
  ELSE IF is_part_empty(p.b, j) THEN [p EXCEPT !.ok = FALSE]
  ELSE [p EXCEPT !.b[j + 1] = @ + 1]

\* a shrink that moves the start boundary of part i instead of its end
shrink_start(p, i) ==
  LET j == Wrap(i + 1) IN
  IF ~p.ok THEN p
  ELSE IF ~(j < parts_count(p.b)) THEN [p EXCEPT !.ok = FALSE]
  ELSE IF ~(i < parts_count(p.b)) THEN [p EXCEPT !.ok = FALSE]
  ELSE IF is_part_empty(p.b, i) THEN [p EXCEPT !.ok = FALSE]
  ELSE [p EXCEPT !.b[i + 1] = @ - 1]

shrink(p, i) ==
  LET j == Wrap(i + 1) IN
  IF ~p.ok THEN p
  ELSE IF ~(j < parts_count(p.b)) THEN [p EXCEPT !.ok = FALSE]
  ELSE IF ~(i < parts_count(p.b)) THEN [p EXCEPT !.ok = FALSE]
  ELSE IF is_part_empty(p.b, i) THEN [p EXCEPT !.ok = FALSE]
  ELSE [p EXCEPT !.b[j + 1] = @ - 1]

\* an add_part_begin that inserts behind part i instead of in front of it
add_part_begin_after(p, i) ==
  IF ~p.ok THEN p
  ELSE IF ~(i < parts_count(p.b)) THEN [p EXCEPT !.ok = FALSE]
  ELSE [p EXCEPT !.b = SubSeq(p.b, 1, i + 1) \o <<p.b[i + 2]>> \o SubSeq(p.b, i + 2, Len(p.b))]

add_part_begin(p, i) ==
  IF ~p.ok THEN p
  ELSE IF ~(i < parts_count(p.b)) THEN [p EXCEPT !.ok = FALSE]
  ELSE [p EXCEPT !.b = SubSeq(p.b, 1, i) \o <<p.b[i + 1]>> \o SubSeq(p.b, i + 1, Len(p.b))]

\* count copies of the boundary v, as vector::insert(pos, count, v) adds them
Copies(v, count) == [k \in 1..count |-> v]

add_part_end(p, i) ==
  IF ~p.ok THEN p
  ELSE IF ~(i < parts_count(p.b)) THEN [p EXCEPT !.ok = FALSE]
  ELSE [p EXCEPT !.b = SubSeq(p.b, 1, i + 1) \o <<p.b[i + 2]>> \o SubSeq(p.b, i + 2, Len(p.b))]

\* an add_parts_end that copies the start boundary of part i
add_parts_end_start(p, i, count) ==
  IF ~p.ok THEN p
  ELSE IF ~(i < parts_count(p.b)) THEN [p EXCEPT !.ok = FALSE]
  ELSE [p EXCEPT !.b = SubSeq(p.b, 1, i + 1) \o Copies(p.b[i + 1], count)
                         \o SubSeq(p.b, i + 2, Len(p.b))]

add_parts_end(p, i, count) ==
  IF ~p.ok THEN p
  ELSE IF ~(i < parts_count(p.b)) THEN [p EXCEPT !.ok = FALSE]
  ELSE [p EXCEPT !.b = SubSeq(p.b, 1, i + 1) \o Copies(p.b[i + 2], count)
                         \o SubSeq(p.b, i + 2, Len(p.b))]

add_parts_begin(p, i, count) ==
  IF ~p.ok THEN p
  ELSE IF ~(i < parts_count(p.b)) THEN [p EXCEPT !.ok = FALSE]
  ELSE [p EXCEPT !.b = SubSeq(p.b, 1, i) \o Copies(p.b[i + 1], count)
                         \o SubSeq(p.b, i + 1, Len(p.b))]

\* a removal that erases the end boundary of part i instead of its start
remove_part_end(p, i) ==
  IF ~p.ok THEN p
  ELSE IF ~(i < parts_count(p.b)) THEN [p EXCEPT !.ok = FALSE]
  ELSE [p EXCEPT !.b = SubSeq(p.b, 1, i + 1) \o SubSeq(p.b, i + 3, Len(p.b))]

\* erase(begin() + i): the only check is i < parts_count()
remove_part(p, i) ==
  IF ~p.ok THEN p
  ELSE IF ~(i < parts_count(p.b)) THEN [p EXCEPT !.ok = FALSE]
  ELSE [p EXCEPT !.b = SubSeq(p.b, 1, i) \o SubSeq(p.b, i + 2, Len(p.b))]

transfer_to_prev(p, i) ==
  IF ~p.ok THEN p
  ELSE IF ~(0 < i) THEN [p EXCEPT !.ok = FALSE]
  ELSE IF ~(i < parts_count(p.b)) THEN [p EXCEPT !.ok = FALSE]
  ELSE [p EXCEPT !.b[i + 1] = p.b[i + 2]]

\* the check is i < parts_count() - 1 in size_t.  With no part left the
\* right-hand side wraps and the assignment is outside the vector, which is
\* undefined: the program crashes, or goes on with the vector as it was.
transfer_to_next(p, i, crash) ==
  IF ~p.ok THEN p
  ELSE IF ~(i < Wrap(parts_count(p.b) - 1)) THEN [p EXCEPT !.ok = FALSE]
  ELSE IF i + 2 > Len(p.b) THEN (IF crash THEN [p EXCEPT !.ok = FALSE] ELSE p)
  ELSE [p EXCEPT !.b[i + 2] = p.b[i + 1]]

\* a grow_by that advances by one element whatever k is
grow_by_single(p, i, k) ==
  LET j == Wrap(i + 1) IN
  IF ~p.ok THEN p
  ELSE IF ~(j < parts_count(p.b)) THEN [p EXCEPT !.ok = FALSE]
  ELSE IF ~(Wrap(part_size(p.b, j)) >= k) THEN [p EXCEPT !.ok = FALSE]
  ELSE [p EXCEPT !.b[j + 1] = @ + 1]

\* grow_by for a random access iterator: one check, one addition
grow_by(p, i, k) ==
  LET j == Wrap(i + 1) IN
  IF ~p.ok THEN p
  ELSE IF ~(j < parts_count(p.b)) THEN [p EXCEPT !.ok = FALSE]
  ELSE IF ~(Wrap(part_size(p.b, j)) >= k) THEN [p EXCEPT !.ok = FALSE]
  ELSE [p EXCEPT !.b[j + 1] = @ + k]

\* the loop of grow_by for a forward iterator, k steps left
RECURSIVE grow_by_loop(_, _, _)
grow_by_loop(p, j, k) ==
  IF k = 0 \/ ~p.ok THEN p
  ELSE IF is_part_empty(p.b, j) THEN [p EXCEPT !.ok = FALSE]
  ELSE grow_by_loop([p EXCEPT !.b[j + 1] = @ + 1], j, k - 1)

grow_by_forward(p, i, k) ==
  LET j == Wrap(i + 1) IN
  IF ~p.ok THEN p
  ELSE IF ~(j < parts_count(p.b)) THEN [p EXCEPT !.ok = FALSE]
  ELSE grow_by_loop(p, j, k)

\* shrink_by for a random access iterator
shrink_by(p, i, k) ==
  LET j == Wrap(i + 1) IN
  IF ~p.ok THEN p
  ELSE IF ~(j < parts_count(p.b)) THEN [p EXCEPT !.ok = FALSE]
  ELSE IF ~(i < parts_count(p.b)) THEN [p EXCEPT !.ok = FALSE]
  ELSE IF ~(Wrap(part_size(p.b, i)) >= k) THEN [p EXCEPT !.ok = FALSE]
  ELSE [p EXCEPT !.b[j + 1] = @ - k]

\* the loop of shrink_by for a bidirectional iterator, k steps left
RECURSIVE shrink_by_loop(_, _, _)
shrink_by_loop(p, i, k) ==
  IF k = 0 \/ ~p.ok THEN p
  ELSE IF ~(i < parts_count(p.b)) THEN [p EXCEPT !.ok = FALSE]
  ELSE IF is_part_empty(p.b, i) THEN [p EXCEPT !.ok = FALSE]
  ELSE shrink_by_loop([p EXCEPT !.b[Wrap(i + 1) + 1] = @ - 1], i, k - 1)

shrink_by_bidirectional(p, i, k) ==
  LET j == Wrap(i + 1) IN
  IF ~p.ok THEN p
  ELSE IF ~(j < parts_count(p.b)) THEN [p EXCEPT !.ok = FALSE]
  ELSE shrink_by_loop(p, i, k)

\* ------------------------------------------------- algorithm_data (pure)
\* a table value is [b, m, ok, r, branch]: boundaries, mapping, no
\* PRECONDITION failed, the returned value, the branch taken

NoHandle == 0 - 1

Table(b, m) == [b |-> b, m |-> m, ok |-> TRUE, r |-> NoHandle, branch |-> "none"]

\* a failed check that lets the call return
Fail_silent(t) == t

\* a failed PRECONDITION: std::terminate or a failed assert
Fail(t) == [t EXCEPT !.ok = FALSE]

\* std::find over parts_mapping_: index of the first row equal to v, or size()
RECURSIVE find_from(_, _, _)
find_from(m, v, i) ==
  IF i >= Len(m) THEN Len(m)
  ELSE IF m[i + 1] = v THEN i
  ELSE find_from(m, v, i + 1)

\* a find that returns the first row whatever it holds
find_front(m, v) == IF Len(m) > 0 THEN 0 ELSE Len(m)

find(m, v) == find_from(m, v, 0)

\* PRECONDITIONs of base: the handle is in range, not a tombstone, and part() accepts it
base_ok(b, m, h) ==
  /\ h >= 0
  /\ h < Len(m)
  /\ m[h + 1] # tombstone_part
  /\ (m[h + 1] # parts_count(b) => m[h + 1] < parts_count(b))

base(b, m, h) ==
  IF m[h + 1] = parts_count(b)
    THEN part(b, parts_count(b) - 1)[2]
    ELSE part(b, m[h + 1])[1]

\* the shift with a strict comparison: the source row keeps its part index
shift_mapping_strict(m, prt) ==
  [k \in 1..Len(m) |->
     IF m[k] > prt /\ m[k] # tombstone_part THEN Wrap(m[k] + 1) ELSE m[k]]

\* a shift that does not spare the tombstones: the reserved value wraps to 0
shift_mapping_wrapping(m, prt) ==
  [k \in 1..Len(m) |-> IF m[k] >= prt THEN Wrap(m[k] + 1) ELSE m[k]]

shift_mapping(m, prt) ==
  [k \in 1..Len(m) |->
     IF m[k] >= prt /\ m[k] # tombstone_part THEN Wrap(m[k] + 1) ELSE m[k]]

\* a copy that inserts the part and binds the new row without shifting the others
copy_iterator_unshifted(t, h) ==
  IF ~t.ok THEN t
  ELSE IF ~(h < Len(t.m)) THEN Fail(t)
  ELSE LET prt == t.m[h + 1] IN
    IF prt = tombstone_part THEN Fail(t)
    ELSE LET p == add_part_begin(Partitioning(t.b), prt) IN
      IF ~p.ok THEN Fail(t)
      ELSE LET m1 == t.m
               it == find(m1, tombstone_part)
           IN IF it # Len(m1)
                THEN [t EXCEPT !.b = p.b, !.m = [m1 EXCEPT ![it + 1] = prt], !.r = it]
                ELSE [t EXCEPT !.b = p.b, !.m = Append(m1, prt), !.r = Len(m1)]

copy_iterator(t, h) ==
  IF ~t.ok THEN t
  ELSE IF ~(h < Len(t.m)) THEN Fail(t)
  ELSE LET prt == t.m[h + 1] IN
    IF prt = tombstone_part THEN Fail(t)
    ELSE LET p == add_part_begin(Partitioning(t.b), prt) IN
      IF ~p.ok THEN Fail(t)
      ELSE LET m1 == shift_mapping(t.m, prt)
               it == find(m1, tombstone_part)
           IN IF it # Len(m1)
                THEN [t EXCEPT !.b = p.b, !.m = [m1 EXCEPT ![it + 1] = prt], !.r = it]
                ELSE [t EXCEPT !.b = p.b, !.m = Append(m1, prt), !.r = Len(m1)]

\* a create_begin_iterator that appends a row even when a tombstone is free
create_begin_iterator_appending(t) ==
  LET c == copy_iterator(t, 0) IN
  IF c.ok /\ Len(c.m) = Len(t.m)
    THEN [c EXCEPT !.m = Append([c.m EXCEPT ![c.r + 1] = tombstone_part], c.m[c.r + 1]),
                   !.r = Len(c.m)]
    ELSE c

create_begin_iterator(t) == copy_iterator(t, 0)

create_end_iterator(t) == copy_iterator(t, 1)

\* a destroy that also erases the boundary of the part the handle owned
destroy_iterator_erasing(t, h) ==
  IF ~t.ok THEN t
  ELSE IF ~(h < Len(t.m)) THEN Fail(t)
  ELSE [t EXCEPT !.m[h + 1] = tombstone_part,
                 !.b = SubSeq(t.b, 1, Len(t.b) - 1)]

destroy_iterator(t, h) ==
  IF ~t.ok THEN t
  ELSE IF ~(h < Len(t.m)) THEN Fail(t)
  ELSE [t EXCEPT !.m[h + 1] = tombstone_part]

\* the forward scan of increment: first index >= q that is a non-empty part, or parts_count()
RECURSIVE next_non_empty(_, _)
next_non_empty(b, q) ==
  IF q < parts_count(b) /\ is_part_empty(b, q) THEN next_non_empty(b, q + 1) ELSE q

\* the backward scan of decrement: stops at 0 or at a non-empty part
RECURSIVE prev_non_empty(_, _)
prev_non_empty(b, q) ==
  IF q > 0 /\ is_part_empty(b, q) THEN prev_non_empty(b, q - 1) ELSE q

\* an assignment instead of a swap: row j takes row i's value, row i keeps it
swap_rows_assign(m, i, j) == [m EXCEPT ![j + 1] = m[i + 1]]

swap_rows(m, i, j) == [m EXCEPT ![i + 1] = m[j + 1], ![j + 1] = m[i + 1]]

increment(t, h) ==
  IF ~t.ok THEN t
  ELSE IF ~(h < Len(t.m)) THEN Fail(t)
  ELSE LET prt == t.m[h + 1] IN
    IF prt = tombstone_part THEN Fail(t)
    ELSE IF ~(prt < parts_count(t.b)) THEN Fail(t)
    ELSE IF ~base_ok(t.b, t.m, 1) THEN Fail(t)
    ELSE IF ~(part(t.b, prt)[1] # base(t.b, t.m, 1)) THEN Fail(t)
    ELSE IF ~is_part_empty(t.b, prt)
      THEN LET p == grow(Partitioning(t.b), Wrap(prt - 1)) IN
           [t EXCEPT !.b = p.b, !.ok = p.ok, !.branch = "simple"]
      ELSE LET q == next_non_empty(t.b, prt + 1) IN
           IF ~(q < parts_count(t.b)) THEN Fail(t)
           ELSE LET it == find(t.m, q) IN
             IF ~(it # Len(t.m)) THEN Fail(t)
             ELSE LET p == grow(Partitioning(t.b), q - 1) IN
                  [t EXCEPT !.b = p.b, !.m = swap_rows(t.m, it, h), !.ok = p.ok,
                            !.branch = "swap"]

\* a decrement whose skipping branch shrinks without exchanging the rows
decrement_no_swap(t, h) ==
  IF ~t.ok THEN t
  ELSE IF ~(h < Len(t.m)) THEN Fail(t)
  ELSE LET prt == t.m[h + 1] IN
    IF prt = tombstone_part THEN Fail(t)
    ELSE IF ~(prt > 0) THEN Fail(t)
    ELSE IF ~(prt < parts_count(t.b)) THEN Fail(t)
    ELSE IF ~base_ok(t.b, t.m, 0) THEN Fail(t)
    ELSE IF ~(part(t.b, prt)[1] # base(t.b, t.m, 0)) THEN Fail(t)
    ELSE IF prt > 0 /\ ~is_part_empty(t.b, prt - 1)
      THEN LET p == shrink(Partitioning(t.b), prt - 1) IN
           [t EXCEPT !.b = p.b, !.ok = p.ok, !.branch = "simple"]
      ELSE LET q == prev_non_empty(t.b, prt - 1) IN
           IF is_part_empty(t.b, q) THEN Fail(t)
           ELSE LET it == find(t.m, q + 1) IN
             IF ~(it # Len(t.m)) THEN Fail(t)
             ELSE LET p == shrink(Partitioning(t.b), q) IN
                  [t EXCEPT !.b = p.b, !.ok = p.ok, !.branch = "swap"]

decrement(t, h) ==
  IF ~t.ok THEN t
  ELSE IF ~(h < Len(t.m)) THEN Fail(t)
  ELSE LET prt == t.m[h + 1] IN
    IF prt = tombstone_part THEN Fail(t)
    ELSE IF ~(prt > 0) THEN Fail(t)
    ELSE IF ~(prt < parts_count(t.b)) THEN Fail(t)
    ELSE IF ~base_ok(t.b, t.m, 0) THEN Fail(t)
    ELSE IF ~(part(t.b, prt)[1] # base(t.b, t.m, 0)) THEN Fail(t)
    ELSE IF prt > 0 /\ ~is_part_empty(t.b, prt - 1)
      THEN LET p == shrink(Partitioning(t.b), prt - 1) IN
           [t EXCEPT !.b = p.b, !.ok = p.ok, !.branch = "simple"]
      ELSE LET q == prev_non_empty(t.b, prt - 1) IN
           IF is_part_empty(t.b, q) THEN Fail(t)
           ELSE LET it == find(t.m, q + 1) IN
             IF ~(it # Len(t.m)) THEN Fail(t)
             ELSE LET p == shrink(Partitioning(t.b), q) IN
                  [t EXCEPT !.b = p.b, !.m = swap_rows(t.m, it, h), !.ok = p.ok,
                            !.branch = "swap"]

\* a constructor that binds the two bootstrap handles the other way round
algorithm_data_reversed(nn) == Table(<<0, nn>>, <<1, 0>>)

\* the constructor: one part covering [0, nn), handle 0 -> part 0, handle 1 -> 1
algorithm_data(nn) == Table(<<0, nn>>, <<0, 1>>)

\* --------------------------------------------------- partitioning_iterator
\* a cursor object: data_ (the shared pointer is non-null), iterator_index_,
\* and pos, the position a plain base iterator moved in parallel would have
\* (the i0 of the tests).  cursors is the bag of the objects that exist: an
\* object has no identity beyond its members.

Cursor(h, ps) == [data_ |-> TRUE, iterator_index_ |-> h, pos |-> ps]

\* a moved-from object that still shares the table (a copy of the pointer)
MovedFrom_shared(o) == [data_ |-> TRUE, iterator_index_ |-> o.iterator_index_, pos |-> 0]

\* what the defaulted move operations leave behind: data_ is null, the
\* index is still the old one
MovedFrom(o) == [data_ |-> FALSE, iterator_index_ |-> o.iterator_index_, pos |-> 0]

Objects == BagToSet(cursors)

Owners == {o \in Objects : o.data_}

Put(bag, o) == bag (+) SetToBag({o})

Drop(bag, o) == bag (-) SetToBag({o})

\* validity of a handle as the documentation words it: in range and not destroyed
valid(m, h) == h >= 0 /\ h < Len(m) /\ m[h + 1] # tombstone_part

\* an equality that compares the handle ids instead of what they resolve to
Equal_by_id(o, q) ==
  /\ o.data_ = q.data_
  /\ o.iterator_index_ = q.iterator_index_

\* operator==: same table and same base position
Equal(o, q) ==
  /\ o.data_ = q.data_
  /\ base(boundaries_, parts_mapping_, o.iterator_index_)
       = base(boundaries_, parts_mapping_, q.iterator_index_)

\* operator!=
NotEqual(o, q) == ~Equal(o, q)

\* operator*: reads through base(); defined only for a position before n
Deref(o) == data[base(boundaries_, parts_mapping_, o.iterator_index_) + 1]

Op(name, h, legal, t) ==
  [op |-> name, h |-> h, legal |-> legal, branch |-> t.branch, r |-> t.r]

\* the common tail of every operation: publish the table, or terminate
Commit(t, cs, l) ==
  /\ boundaries_' = t.b
  /\ parts_mapping_' = t.m
  /\ aborted' = ~t.ok
  /\ cursors' = IF t.ok THEN cs ELSE cursors
  /\ last' = l
  /\ made' = (made \/ l.op = "make_partitioning_iterators")
  /\ UNCHANGED <<n, data>>

Now == Table(boundaries_, parts_mapping_)

CanCopy == parts_count(boundaries_) < MaxParts

CanCreate == BagCardinality(cursors) < MaxCursors

Init ==
  /\ n \in 0..MaxN
  /\ data = [i \in 1..n |-> ElementAt(i)]
  /\ boundaries_ = algorithm_data(n).b
  /\ parts_mapping_ = algorithm_data(n).m
  /\ cursors = EmptyBag
  /\ aborted = FALSE
  /\ made = FALSE
  /\ last = [op |-> "algorithm_data", h |-> NoHandle, legal |-> TRUE,
             branch |-> "none", r |-> NoHandle]

\* make_partitioning_iterators(begin, end): builds the table and returns
\* the begin cursor and the end cursor
make_partitioning_iterators ==
  /\ ~aborted
  /\ last.op = "algorithm_data"
  /\ LET t0 == algorithm_data(n)
         t1 == create_begin_iterator(t0)
         t2 == create_end_iterator(t1)
     IN Commit(t2,
               Put(Put(cursors, Cursor(t1.r, 0)), Cursor(t2.r, n)),
               Op("make_partitioning_iterators", NoHandle, TRUE, t2))

\* partitioning_iterator(data, data->create_begin_iterator())
CreateBegin ==
  /\ ~aborted
  /\ CanCreate
  /\ CanCopy
  /\ LET t == create_begin_iterator(Now)
     IN Commit(t, Put(cursors, Cursor(t.r, 0)),
               Op("create_begin_iterator", 0, TRUE, t))

\* partitioning_iterator(data, data->create_end_iterator())
CreateEnd ==
  /\ ~aborted
  /\ CanCreate
  /\ CanCopy
  /\ LET t == create_end_iterator(Now)
     IN Commit(t, Put(cursors, Cursor(t.r, n)),
               Op("create_end_iterator", 1, TRUE, t))

\* partitioning_iterator(const partitioning_iterator& other)
CopyConstruct ==
  \E src \in Objects :
    /\ ~aborted
    /\ src.data_
    /\ CanCreate
    /\ CanCopy
    /\ LET h == src.iterator_index_
           t == copy_iterator(Now, h)
       IN Commit(t, Put(cursors, Cursor(t.r, src.pos)),
                 Op("copy", h, valid(parts_mapping_, h), t))

\* ~partitioning_iterator()
Destroy ==
  \E o \in Objects :
    /\ ~aborted
    /\ LET h == o.iterator_index_
           t == IF o.data_
                  THEN [destroy_iterator(Now, h) EXCEPT !.branch = "tombstone"]
                  ELSE [Now EXCEPT !.branch = "null"]
       IN Commit(t, Drop(cursors, o),
                 Op("destroy", h, ~o.data_ \/ valid(parts_mapping_, h), t))

increment_legal(b, m, h) ==
  /\ base_ok(b, m, h)
  /\ base_ok(b, m, 1)
  /\ base(b, m, h) # base(b, m, 1)

decrement_legal(b, m, h) ==
  /\ base_ok(b, m, h)
  /\ base_ok(b, m, 0)
  /\ m[h + 1] > 0
  /\ base(b, m, h) # base(b, m, 0)

Moved(o, d) == [o EXCEPT !.pos = @ + d]

\* operator++()
PreIncrement ==
  \E o \in Objects :
    /\ ~aborted
    /\ o.data_
    /\ LET h == o.iterator_index_
           t == increment(Now, h)
       IN Commit(t, Put(Drop(cursors, o), Moved(o, 1)),
                 Op("increment", h, increment_legal(boundaries_, parts_mapping_, h), t))

\* operator--()
PreDecrement ==
  \E o \in Objects :
    /\ ~aborted
    /\ o.data_
    /\ LET h == o.iterator_index_
           t == decrement(Now, h)
       IN Commit(t, Put(Drop(cursors, o), Moved(o, 0 - 1)),
                 Op("decrement", h, decrement_legal(boundaries_, parts_mapping_, h), t))

\* operator++(int): the returned copy is a new object
PostIncrement ==
  \E o \in Objects :
    /\ ~aborted
    /\ o.data_
    /\ CanCreate
    /\ CanCopy
    /\ LET h == o.iterator_index_
           t1 == copy_iterator(Now, h)
           t2 == [increment(t1, h) EXCEPT !.r = t1.r]
       IN Commit(t2, Put(Put(Drop(cursors, o), Moved(o, 1)), Cursor(t1.r, o.pos)),
                 Op("post_increment", h, increment_legal(boundaries_, parts_mapping_, h), t2))

\* operator--(int)
PostDecrement ==
  \E o \in Objects :
    /\ ~aborted
    /\ o.data_
    /\ CanCreate
    /\ CanCopy
    /\ LET h == o.iterator_index_
           t1 == copy_iterator(Now, h)
           t2 == [decrement(t1, h) EXCEPT !.r = t1.r]
       IN Commit(t2, Put(Put(Drop(cursors, o), Moved(o, 0 - 1)), Cursor(t1.r, o.pos)),
                 Op("post_decrement", h, decrement_legal(boundaries_, parts_mapping_, h), t2))

\* operator=(const partitioning_iterator& other); an owning object is equal
\* to no other object, so dst = src is the self-assignment
CopyAssign ==
  \E dst \in Objects, src \in Objects :
    /\ ~aborted
    /\ src.data_
    /\ CanCopy
    /\ LET h == src.iterator_index_
           t1 == IF dst.data_ THEN destroy_iterator(Now, dst.iterator_index_) ELSE Now
           t2 == copy_iterator(t1, h)
       IN IF dst = src
            THEN Commit(Now, cursors, Op("copy_assign", h, TRUE, Now))
            ELSE Commit(t2, Put(Drop(cursors, dst), Cursor(t2.r, src.pos)),
                        Op("copy_assign", h, valid(parts_mapping_, h), t2))

\* partitioning_iterator(partitioning_iterator&&) = default: the new object
\* takes the members of src, src keeps a null data_
MoveConstruct ==
  \E src \in Objects :
    /\ ~aborted
    /\ CanCreate
    /\ Commit(Now, Put(Put(Drop(cursors, src), src), MovedFrom(src)),
              Op("move", src.iterator_index_, TRUE, Now))

\* operator=(partitioning_iterator&&) = default, from a different object:
\* dst takes the members of src, whatever dst held is overwritten
MoveAssign ==
  \E dst \in Objects, src \in Objects :
    /\ ~aborted
    /\ (dst # src \/ CopiesIn(src, cursors) >= 2)
    /\ Commit(Now, Put(Put(Drop(Drop(cursors, dst), src), src), MovedFrom(src)),
              Op("move_assign", src.iterator_index_, TRUE, Now))

Next ==
  \/ make_partitioning_iterators
  \/ CreateBegin
  \/ CreateEnd
  \/ CopyConstruct
  \/ Destroy
  \/ PreIncrement
  \/ PreDecrement
  \/ PostIncrement
  \/ PostDecrement
  \/ CopyAssign
  \/ MoveConstruct
  \/ MoveAssign

Spec == Init /\ [][Next]_vars

\* -------------------------------------------------- reading through cursors
\* operator*: base() checks the handle, the position is not checked.  At a
\* position before n the element is read; at position n the read goes past
\* the range, which is undefined: the program crashes, or it goes on with
\* whatever lies behind the range.
Dereference ==
  \E o \in Objects, crash \in BOOLEAN :
    /\ ~aborted
    /\ o.data_
    /\ LET h == o.iterator_index_
           t == IF ~base_ok(boundaries_, parts_mapping_, h) THEN Fail(Now)
                ELSE IF base(boundaries_, parts_mapping_, h) < n
                  THEN [Now EXCEPT !.r = Deref(o)]
                ELSE IF crash THEN Fail(Now)
                ELSE [Now EXCEPT !.r = ElementAt(n + 1)]
       IN Commit(t, cursors,
                 Op("dereference", h,
                    /\ base_ok(boundaries_, parts_mapping_, h)
                    /\ base_ok(boundaries_, parts_mapping_, 1)
                    /\ base(boundaries_, parts_mapping_, h) # base(boundaries_, parts_mapping_, 1),
                    t))

\* a begin cursor and its copies, moved forward and read
NextRead ==
  \/ CreateBegin
  \/ CopyConstruct
  \/ PreIncrement
  \/ Dereference
  \/ Destroy

SpecRead == Init /\ [][NextRead]_vars

\* ------------------------------------------- algorithm_data called directly
\* the member functions of algorithm_data called with any handle id, the
\* first id past the table included; no cursor object is involved

Handles == 0..Len(parts_mapping_)

\* base(iterator_index) const
RawBase ==
  \E h \in Handles :
    /\ ~aborted
    /\ LET t == IF base_ok(boundaries_, parts_mapping_, h)
                  THEN [Now EXCEPT !.r = base(boundaries_, parts_mapping_, h)]
                  ELSE Fail(Now)
       IN Commit(t, cursors, Op("algorithm_data::base", h, valid(parts_mapping_, h), t))

\* copy_iterator(iterator_index); create_begin_iterator and
\* create_end_iterator are the calls with 0 and 1
RawCopyIterator ==
  \E h \in Handles :
    /\ ~aborted
    /\ CanCopy
    /\ LET t == copy_iterator(Now, h)
       IN Commit(t, cursors,
                 Op("algorithm_data::copy_iterator", h, valid(parts_mapping_, h), t))

\* destroy_iterator(iterator_index)
RawDestroyIterator ==
  \E h \in Handles :
    /\ ~aborted
    /\ LET t == destroy_iterator(Now, h)
       IN Commit(t, cursors,
                 Op("algorithm_data::destroy_iterator", h, valid(parts_mapping_, h), t))

\* increment(iterator_index)
RawIncrement ==
  \E h \in Handles :
    /\ ~aborted
    /\ LET t == increment(Now, h)
       IN Commit(t, cursors,
                 Op("algorithm_data::increment", h,
                    increment_legal(boundaries_, parts_mapping_, h), t))

\* decrement(iterator_index)
RawDecrement ==
  \E h \in Handles :
    /\ ~aborted
    /\ LET t == decrement(Now, h)
       IN Commit(t, cursors,
                 Op("algorithm_data::decrement", h,
                    decrement_legal(boundaries_, parts_mapping_, h), t))

NextTable ==
  \/ RawBase
  \/ RawCopyIterator
  \/ RawDestroyIterator
  \/ RawIncrement
  \/ RawDecrement

SpecTable == Init /\ [][NextTable]_vars

\* ------------------------------------------------ partitioning called directly
\* the member functions of a partitioning over the range, called with any
\* part index: the indices around parts_count() and the largest size_t

Indexes == 0..(parts_count(boundaries_) + 1) \cup {SizeModulus - 1}

Counts == 0..MaxN

\* publish the boundaries, or terminate
Stepped(p, name, i, k, legal) ==
  LET t == [Now EXCEPT !.b = p.b, !.ok = p.ok, !.r = k]
  IN Commit(t, cursors, Op(name, i, legal, t))

Here == Partitioning(boundaries_)

\* the documented precondition i + 1 < parts_count(), in the integers
has_next(i) == i + 1 < parts_count(boundaries_)

CanAdd(count) == parts_count(boundaries_) + count <= MaxParts

Grow ==
  \E i \in Indexes :
    /\ ~aborted
    /\ Stepped(grow(Here, i), "grow", i, 1,
               has_next(i) /\ ~is_part_empty(boundaries_, i + 1))

GrowBy ==
  \E i \in Indexes, k \in Counts, random_access \in BOOLEAN :
    /\ ~aborted
    /\ Stepped(IF random_access THEN grow_by(Here, i, k) ELSE grow_by_forward(Here, i, k),
               "grow_by", i, k,
               has_next(i) /\ part_size(boundaries_, i + 1) >= k)

Shrink ==
  \E i \in Indexes :
    /\ ~aborted
    /\ Stepped(shrink(Here, i), "shrink", i, 1,
               has_next(i) /\ ~is_part_empty(boundaries_, i))

ShrinkBy ==
  \E i \in Indexes, k \in Counts, random_access \in BOOLEAN :
    /\ ~aborted
    /\ Stepped(IF random_access THEN shrink_by(Here, i, k)
                                ELSE shrink_by_bidirectional(Here, i, k),
               "shrink_by", i, k,
               has_next(i) /\ part_size(boundaries_, i) >= k)

TransferToPrev ==
  \E i \in Indexes :
    /\ ~aborted
    /\ Stepped(transfer_to_prev(Here, i), "transfer_to_prev", i, 0,
               0 < i /\ i < parts_count(boundaries_))

TransferToNext ==
  \E i \in Indexes, crash \in BOOLEAN :
    /\ ~aborted
    /\ Stepped(transfer_to_next(Here, i, crash), "transfer_to_next", i, 0,
               i < parts_count(boundaries_) - 1)

AddPartEnd ==
  \E i \in Indexes :
    /\ ~aborted
    /\ CanAdd(1)
    /\ Stepped(add_part_end(Here, i), "add_part_end", i, 1, i < parts_count(boundaries_))

AddPartBegin ==
  \E i \in Indexes :
    /\ ~aborted
    /\ CanAdd(1)
    /\ Stepped(add_part_begin(Here, i), "add_part_begin", i, 1, i < parts_count(boundaries_))

AddPartsEnd ==
  \E i \in Indexes, count \in Counts :
    /\ ~aborted
    /\ CanAdd(count)
    /\ Stepped(add_parts_end(Here, i, count), "add_parts_end", i, count,
               i < parts_count(boundaries_))

AddPartsBegin ==
  \E i \in Indexes, count \in Counts :
    /\ ~aborted
    /\ CanAdd(count)
    /\ Stepped(add_parts_begin(Here, i, count), "add_parts_begin", i, count,
               i < parts_count(boundaries_))

RemovePart ==
  \E i \in Indexes :
    /\ ~aborted
    /\ Stepped(remove_part(Here, i), "remove_part", i, 0,
               0 < i /\ i < parts_count(boundaries_))

NextPartitioning ==
  \/ Grow
  \/ GrowBy
  \/ Shrink
  \/ ShrinkBy
  \/ TransferToPrev
  \/ TransferToNext
  \/ AddPartEnd
  \/ AddPartBegin
  \/ AddPartsEnd
  \/ AddPartsBegin
  \/ RemovePart

SpecPartitioning == Init /\ [][NextPartitioning]_vars

\* the sum of part_size(i) over the parts 0..(k - 1)
RECURSIVE SumSizes(_, _)
SumSizes(b, k) == IF k = 0 THEN 0 ELSE SumSizes(b, k - 1) + part_size(b, k - 1)

\* the elements of the parts 0..(k - 1), in index order
RECURSIVE Reconstructed(_, _)
Reconstructed(b, k) ==
  IF k = 0 THEN <<>>
  ELSE Reconstructed(b, k - 1) \o SubSeq(data, b[k] + 1, b[k + 1])

\* k successive grow(i) calls
RECURSIVE grow_times(_, _, _)
grow_times(p, i, k) == IF k = 0 THEN p ELSE grow_times(grow(p, i), i, k - 1)

\* k successive shrink(i) calls
RECURSIVE shrink_times(_, _, _)
shrink_times(p, i, k) == IF k = 0 THEN p ELSE shrink_times(shrink(p, i), i, k - 1)

\* count successive add_part_end(i) calls
RECURSIVE add_part_end_times(_, _, _)
add_part_end_times(p, i, count) ==
  IF count = 0 THEN p ELSE add_part_end_times(add_part_end(p, i), i, count - 1)

\* count successive add_part_begin(i) calls
RECURSIVE add_part_begin_times(_, _, _)
add_part_begin_times(p, i, count) ==
  IF count = 0 THEN p ELSE add_part_begin_times(add_part_begin(p, i), i, count - 1)

\* the documented preconditions of grow(i) and shrink(i), in the integers
grow_legal(b, i) == i + 1 < parts_count(b) /\ ~is_part_empty(b, i + 1)

shrink_legal(b, i) == i + 1 < parts_count(b) /\ ~is_part_empty(b, i)

\* parts_count() and the bounds of every part except i and i + 1 are the same in b and c
SameElsewhere(b, c, i) ==
  /\ parts_count(c) = parts_count(b)
  /\ \A k \in 0..(parts_count(b) - 1) : k \notin {i, i + 1} => part(c, k) = part(b, k)

\* ------------------------------------------------------------ helpers
LiveRows(m) == {h \in 0..(Len(m) - 1) : m[h + 1] # tombstone_part}

UserRows(m) == {h \in LiveRows(m) : h >= 2}

Held == {o.iterator_index_ : o \in Owners}

Resolve(h) == base(boundaries_, parts_mapping_, h)

\* the rows of m that are tombstones
Tombstones(m) == {h \in 0..(Len(m) - 1) : m[h + 1] = tombstone_part}

Lowest(S) == CHOOSE x \in S : \A y \in S : x <= y

\* number of objects of the bag that own handle h
OwnersOf(bag, h) ==
  BagCardinality([o \in {q \in BagToSet(bag) : q.data_ /\ q.iterator_index_ = h} |-> bag[o]])

\* number of objects of the bag whose data_ is null
Hollow(bag) ==
  BagCardinality([o \in {q \in BagToSet(bag) : ~q.data_} |-> bag[o]])

\* every state that did not terminate was reached by calls that respected
\* their documented preconditions, and every live row can be resolved
LegalHistory ==
  ~aborted => /\ last.legal
              /\ \A h \in LiveRows(parts_mapping_) : base_ok(boundaries_, parts_mapping_, h)

\* ------------------------------------------------------------ the factory

\* C1: for every range, make_partitioning_iterators completes without a
\* failed PRECONDITION and returns a begin cursor resolving to the range
\* start and an end cursor resolving to the range end.
C1_FactoryCompletes ==
  last.op = "make_partitioning_iterators" =>
    /\ ~aborted
    /\ BagCardinality(cursors) = 2
    /\ \E o \in Owners : o.pos = 0 /\ Resolve(o.iterator_index_) = 0
    /\ \E o \in Owners : o.pos = n /\ Resolve(o.iterator_index_) = n

\* C2: forward traversal.  Once the factory has returned, a cursor that was
\* copied from begin and pre-incremented k times reads element k of the
\* range, is unequal to end while k < n and equal to end when k = n, and no
\* step of the loop fails a contract check.
C2_ForwardTraversal ==
  made =>
    /\ ~aborted
    /\ \A o \in Owners :
         LET k == o.pos IN
         /\ Resolve(o.iterator_index_) = k
         /\ k < n => Deref(o) = ElementAt(k + 1)
         /\ (Resolve(o.iterator_index_) = Resolve(1)) <=> (k = n)

\* C6: reverse traversal.  Once the factory has returned over a non-empty
\* range, a cursor copied from end and decremented k times (1 <= k <= n)
\* reads element n - k, and it is equal to begin exactly when k = n; no
\* step fails a contract check.
C6_ReverseTraversal ==
  (made /\ n > 0) =>
    /\ ~aborted
    /\ \A o \in Owners :
         LET k == n - o.pos IN
         /\ Resolve(o.iterator_index_) = n - k
         /\ k >= 1 => Deref(o) = ElementAt(n - k + 1)
         /\ (Resolve(o.iterator_index_) = Resolve(0)) <=> (k = n)

\* ------------------------------------------------------- cursor motion

\* C3: a completed increment or decrement of handle h changes what h
\* resolves to and leaves unchanged what every other live handle (the two
\* bootstrap handles included) resolves to.
C3_CursorIndependence ==
  [][(last'.op \in {"increment", "decrement"} /\ ~aborted') =>
       /\ base(boundaries_', parts_mapping_', last'.h) # Resolve(last'.h)
       /\ \A g \in LiveRows(parts_mapping_) \ {last'.h} :
            /\ g \in LiveRows(parts_mapping_')
            /\ base(boundaries_', parts_mapping_', g) = Resolve(g)]_vars

\* a binding swap happened while another cursor was alive
C3_Witness ==
  /\ ~aborted
  /\ last.op \in {"increment", "decrement"}
  /\ last.branch = "swap"
  /\ Cardinality(Owners) >= 2

\* C4: an increment whose documented preconditions hold (live handle, not
\* at the end position) completes without a failed contract check and
\* moves the handle's resolved position forward by exactly one.
C4_IncrementTotal ==
  [][(last'.op = "increment" /\ last'.legal) =>
       /\ ~aborted'
       /\ base(boundaries_', parts_mapping_', last'.h) = Resolve(last'.h) + 1]_vars

\* C5: a decrement of a live handle bound to a part index > 0 and not at
\* the first element's position completes without a failed contract check
\* and moves the handle's resolved position backward by exactly one.
C5_DecrementTotal ==
  [][(last'.op = "decrement" /\ last'.legal) =>
       /\ ~aborted'
       /\ base(boundaries_', parts_mapping_', last'.h) = Resolve(last'.h) - 1]_vars

\* ----------------------------------------------------------------- copy

\* C7: for every live handle h, copy_iterator(h) returns an id different
\* from every live handle, the new handle resolves to where h resolved, and
\* every live handle resolves to the same position as before the call.
C7_CopyPreservesPositions ==
  [][(last'.op \in {"copy", "create_begin_iterator", "create_end_iterator"}) =>
       /\ ~aborted'
       /\ last'.r \notin LiveRows(parts_mapping_)
       /\ last'.r \in LiveRows(parts_mapping_')
       /\ base(boundaries_', parts_mapping_', last'.r) = Resolve(last'.h)
       /\ \A g \in LiveRows(parts_mapping_) :
            /\ g \in LiveRows(parts_mapping_')
            /\ base(boundaries_', parts_mapping_', g) = Resolve(g)]_vars

\* ----------------------------------------------------------- invariants

\* C8: no two distinct live rows of parts_mapping_ hold the same value.
C8_UniqueOwnership ==
  ~aborted =>
    \A g, h \in LiveRows(parts_mapping_) :
      g # h => parts_mapping_[g + 1] # parts_mapping_[h + 1]

\* a copy has just shifted the rows of a table with two user handles
C8_Witness ==
  /\ ~aborted
  /\ last.op = "copy"
  /\ Cardinality(UserRows(parts_mapping_)) >= 2

\* C9: parts_count() is one less than the number of valid rows.
C9_ClassInvariant ==
  ~aborted => parts_count(boundaries_) = Cardinality(LiveRows(parts_mapping_)) - 1

\* C10: the live non-bootstrap rows are exactly the handles held by the
\* cursors that exist.
C10_HandlesOwnedOnce ==
  ~aborted => UserRows(parts_mapping_) = Held

\* ----------------------------------------------------------------- move

\* C11: move construction leaves boundaries_ and parts_mapping_ as they
\* were, the handle of the source is owned by as many objects as before
\* (the new cursor in place of the source), one more object holds no table
\* reference, and destroying an object without a table reference leaves
\* boundaries_ and parts_mapping_ as they were.
C11_MoveTransfers ==
  [][/\ last'.op = "move" =>
          /\ ~aborted'
          /\ boundaries_' = boundaries_
          /\ parts_mapping_' = parts_mapping_
          /\ OwnersOf(cursors', last'.h) = OwnersOf(cursors, last'.h)
          /\ Hollow(cursors') = Hollow(cursors) + 1
     /\ (last'.op = "destroy" /\ last'.branch = "null") =>
          /\ ~aborted'
          /\ Hollow(cursors') = Hollow(cursors) - 1
          /\ boundaries_' = boundaries_
          /\ parts_mapping_' = parts_mapping_]_vars

\* an owning cursor was moved: its handle is still owned, next to an
\* object without a table reference
C11_Witness ==
  /\ ~aborted
  /\ last.op = "move"
  /\ OwnersOf(cursors, last.h) = 1
  /\ Hollow(cursors) = 1

\* ---------------------------------------------------------- handle reuse

\* C12: a copy_iterator call on a live handle returns the lowest-indexed
\* tombstoned row and leaves the number of rows unchanged when the table
\* has a tombstone, and appends one row and returns its index when it has
\* none.
C12_HandleReuse ==
  [][(last'.op \in {"copy", "create_begin_iterator", "create_end_iterator"}
        /\ valid(parts_mapping_, last'.h)) =>
       /\ ~aborted'
       /\ IF Tombstones(parts_mapping_) # {}
            THEN /\ last'.r = Lowest(Tombstones(parts_mapping_))
                 /\ Len(parts_mapping_') = Len(parts_mapping_)
            ELSE /\ last'.r = Len(parts_mapping_)
                 /\ Len(parts_mapping_') = Len(parts_mapping_) + 1]_vars

\* -------------------------------------------------------------- destroy

\* C13: destroying a cursor that owns a live handle h turns row h into a
\* tombstone and changes nothing else: the boundaries and every other row
\* are as before, every other live handle resolves to the same position,
\* and the part h owned is still in the partition, owned by no live row.
C13_DestroyFrame ==
  [][(last'.op = "destroy" /\ last'.branch = "tombstone"
        /\ valid(parts_mapping_, last'.h)) =>
       /\ ~aborted'
       /\ boundaries_' = boundaries_
       /\ parts_mapping_' = [parts_mapping_ EXCEPT ![last'.h + 1] = tombstone_part]
       /\ \A g \in LiveRows(parts_mapping_) \ {last'.h} :
            /\ g \in LiveRows(parts_mapping_')
            /\ base(boundaries_', parts_mapping_', g) = Resolve(g)
       /\ parts_mapping_[last'.h + 1] < parts_count(boundaries_')
       /\ \A g \in LiveRows(parts_mapping_') :
            parts_mapping_'[g + 1] # parts_mapping_[last'.h + 1]]_vars

\* a cursor was destroyed while another one is alive
C13_Witness ==
  /\ ~aborted
  /\ last.op = "destroy"
  /\ last.branch = "tombstone"
  /\ parts_mapping_[last.h + 1] = tombstone_part
  /\ Owners # {}

\* ----------------------------------------------------------- part count

\* C14: parts_count() never decreases; every copy_iterator call on a live
\* handle raises it by exactly one and adds one live row; destroying a
\* cursor, incrementing and decrementing leave it unchanged, and a
\* destroy removes one live row (so a copy followed by the destruction of
\* the copy raises parts_count() by one and restores the live row count).
C14_PartsCountGrows ==
  [][/\ parts_count(boundaries_') >= parts_count(boundaries_)
     /\ (last'.op \in {"copy", "create_begin_iterator", "create_end_iterator"}
           /\ valid(parts_mapping_, last'.h)) =>
          /\ ~aborted'
          /\ parts_count(boundaries_') = parts_count(boundaries_) + 1
          /\ Cardinality(LiveRows(parts_mapping_')) = Cardinality(LiveRows(parts_mapping_)) + 1
     /\ last'.op \in {"destroy", "increment", "decrement"} =>
          parts_count(boundaries_') = parts_count(boundaries_)
     /\ (last'.op = "destroy" /\ last'.branch = "tombstone") =>
          Cardinality(LiveRows(parts_mapping_')) = Cardinality(LiveRows(parts_mapping_)) - 1]_vars

\* ------------------------------------------------- post-increment in sync

\* C15: the traversal starts from the cursors the factory returns;
\* post = it2++ on a cursor that is not at end completes, post resolves to
\* where it2 was, it2 is one further, and every cursor it1 that was equal
\* to it2 is equal to post and unequal to it2; then ++it1 on a cursor one
\* position behind a cursor it2 completes and makes it1 and it2 equal.
C15_PostIncrementInSync ==
  [][/\ last'.op = "make_partitioning_iterators" => ~aborted'
     /\ (last'.op = "post_increment" /\ last'.legal) =>
          /\ ~aborted'
          /\ base(boundaries_', parts_mapping_', last'.r) = Resolve(last'.h)
          /\ base(boundaries_', parts_mapping_', last'.h) = Resolve(last'.h) + 1
          /\ \A g \in Held \ {last'.h} :
               Resolve(g) = Resolve(last'.h) =>
                 /\ base(boundaries_', parts_mapping_', g)
                      = base(boundaries_', parts_mapping_', last'.r)
                 /\ base(boundaries_', parts_mapping_', g)
                      # base(boundaries_', parts_mapping_', last'.h)
     /\ (last'.op = "increment" /\ last'.legal
           /\ \E g \in Held \ {last'.h} : Resolve(g) = Resolve(last'.h) + 1) =>
          /\ ~aborted'
          /\ \A g \in Held \ {last'.h} :
               Resolve(g) = Resolve(last'.h) + 1 =>
                 base(boundaries_', parts_mapping_', g)
                   = base(boundaries_', parts_mapping_', last'.h)]_vars

\* ------------------------------------------------------------- equality

C17_InvalidHandleFailsFast ==
  [][(last'.op \in {"algorithm_data::base", "algorithm_data::copy_iterator",
                     "algorithm_data::destroy_iterator", "algorithm_data::increment",
                     "algorithm_data::decrement"}
        /\ ~valid(parts_mapping_, last'.h)) =>
       /\ aborted'
       /\ boundaries_' = boundaries_
       /\ parts_mapping_' = parts_mapping_]_vars

\* ---------------------------------------------------------- out of range

C19_DerefAtEndFailsFast ==
  [][(last'.op = "dereference"
        /\ base_ok(boundaries_, parts_mapping_, last'.h)
        /\ base_ok(boundaries_, parts_mapping_, 1)
        /\ Resolve(last'.h) = Resolve(1)) => aborted']_vars

\* ------------------------------------------------------------ coverage

\* C20: after any sequence of partitioning calls that passed the checks of
\* the code, the boundaries are non-decreasing, the first one is the range
\* start, the last one the range end, the part sizes add up to the range
\* size, and the parts in index order spell the original sequence.
C20_PartitionCoverage ==
  ~aborted =>
    /\ \A k \in 1..(Len(boundaries_) - 1) : boundaries_[k] <= boundaries_[k + 1]
    /\ boundaries_[1] = 0
    /\ boundaries_[Len(boundaries_)] = n
    /\ SumSizes(boundaries_, parts_count(boundaries_)) = n
    /\ Reconstructed(boundaries_, parts_count(boundaries_)) = data

\* ------------------------------------------------------------ part count

\* C21: a partitioning has at least one part after any sequence of calls
\* that passed the checks of the code.
C21_AtLeastOnePart ==
  ~aborted => parts_count(boundaries_) >= 1

\* ------------------------------------------------------------ remove_part

\* C22: remove_part(i) with i = 0 or with i >= parts_count() terminates
\* and erases no boundary.
C22_RemovePartRejects ==
  [][(last'.op = "remove_part"
        /\ (last'.h = 0 \/ last'.h >= parts_count(boundaries_))) =>
       /\ aborted'
       /\ boundaries_' = boundaries_]_vars

\* C23: remove_part(i) with 0 < i < parts_count() returns, leaves one part
\* less, makes part i-1 span the old parts i-1 and i (its size is the sum
\* of theirs), keeps the parts below i-1 and moves every part above i one
\* index down with the same bounds.
C23_RemovePartMerges ==
  [][(last'.op = "remove_part" /\ last'.legal) =>
       LET i == last'.h IN
       /\ ~aborted'
       /\ parts_count(boundaries_') = parts_count(boundaries_) - 1
       /\ part(boundaries_', i - 1)
            = <<part(boundaries_, i - 1)[1], part(boundaries_, i)[2]>>
       /\ part_size(boundaries_', i - 1)
            = part_size(boundaries_, i - 1) + part_size(boundaries_, i)
       /\ \A k \in 0..(i - 2) : part(boundaries_', k) = part(boundaries_, k)
       /\ \A k \in (i + 1)..(parts_count(boundaries_) - 1) :
            part(boundaries_', k - 1) = part(boundaries_, k)]_vars

\* the middle one of three parts was removed and its elements went to part 0
C23_Witness ==
  /\ ~aborted
  /\ last.op = "remove_part"
  /\ last.legal
  /\ last.h = 1
  /\ parts_count(boundaries_) = 2
  /\ part_size(boundaries_, 0) > 0
  /\ part_size(boundaries_, 1) > 0

\* ---------------------------------------------------------- grow, shrink

\* C24: grow(i) with i + 1 < parts_count() and part i+1 non-empty returns,
\* part i is one larger, part i+1 one smaller, parts_count() and the
\* bounds of the other parts are unchanged; every other grow(i) terminates
\* and moves no boundary.
C24_GrowEffect ==
  [][last'.op = "grow" =>
       LET i == last'.h IN
       IF last'.legal
         THEN /\ ~aborted'
              /\ part_size(boundaries_', i) = part_size(boundaries_, i) + 1
              /\ part_size(boundaries_', i + 1) = part_size(boundaries_, i + 1) - 1
              /\ SameElsewhere(boundaries_, boundaries_', i)
         ELSE /\ aborted'
              /\ boundaries_' = boundaries_]_vars

\* C25: shrink(i) with i + 1 < parts_count() and part i non-empty returns,
\* part i is one smaller, part i+1 one larger, parts_count() and the
\* bounds of the other parts are unchanged; shrink(i) on an empty part i
\* terminates and moves no boundary.
C25_ShrinkEffect ==
  [][last'.op = "shrink" =>
       LET i == last'.h IN
       /\ last'.legal =>
            /\ ~aborted'
            /\ part_size(boundaries_', i) = part_size(boundaries_, i) - 1
            /\ part_size(boundaries_', i + 1) = part_size(boundaries_, i + 1) + 1
            /\ SameElsewhere(boundaries_, boundaries_', i)
       /\ (i < parts_count(boundaries_) /\ is_part_empty(boundaries_, i)) =>
            /\ aborted'
            /\ boundaries_' = boundaries_]_vars

\* a part between two others gave its last element to the next part
C25_Witness ==
  /\ ~aborted
  /\ last.op = "shrink"
  /\ last.legal
  /\ last.h = 1
  /\ parts_count(boundaries_) = 3
  /\ part_size(boundaries_, 0) > 0

\* C26: wherever grow(i) is legal, grow(i) followed by shrink(i) runs
\* without a failed check and restores every boundary; wherever shrink(i)
\* is legal, shrink(i) followed by grow(i) does.
C26_GrowShrinkInverse ==
  ~aborted =>
    \A i \in Indexes :
      /\ grow_legal(boundaries_, i) =>
           LET g == grow(Here, i)
               s == shrink(g, i)
           IN g.ok /\ g.b # boundaries_ /\ shrink_legal(g.b, i) /\ s.ok /\ s.b = boundaries_
      /\ shrink_legal(boundaries_, i) =>
           LET s == shrink(Here, i)
               g == grow(s, i)
           IN s.ok /\ s.b # boundaries_ /\ grow_legal(s.b, i) /\ g.ok /\ g.b = boundaries_

\* a grow has just run, between two parts that both have elements, so that
\* both round trips start from this state
C26_Witness ==
  /\ ~aborted
  /\ last.op = "grow"
  /\ last.legal
  /\ shrink_legal(boundaries_, last.h)
  /\ grow_legal(boundaries_, last.h)

\* ------------------------------------------------------- batched calls

\* C27: for i + 1 < parts_count() and k up to the size of part i+1,
\* grow_by(i, k) on the arithmetic path and on the step-by-step path
\* returns with the boundaries that k grow(i) calls give; for k up to the
\* size of part i, shrink_by(i, k) on both paths returns with the
\* boundaries that k shrink(i) calls give; with a larger k both paths of
\* both functions terminate.
C27_BatchedMoves ==
  ~aborted =>
    \A i \in Indexes, k \in Counts :
      has_next(i) =>
        /\ IF k <= part_size(boundaries_, i + 1)
             THEN /\ grow_times(Here, i, k).ok
                  /\ grow_by(Here, i, k) = grow_times(Here, i, k)
                  /\ grow_by_forward(Here, i, k) = grow_times(Here, i, k)
             ELSE /\ ~grow_by(Here, i, k).ok
                  /\ ~grow_by_forward(Here, i, k).ok
        /\ IF k <= part_size(boundaries_, i)
             THEN /\ shrink_times(Here, i, k).ok
                  /\ shrink_by(Here, i, k) = shrink_times(Here, i, k)
                  /\ shrink_by_bidirectional(Here, i, k) = shrink_times(Here, i, k)
             ELSE /\ ~shrink_by(Here, i, k).ok
                  /\ ~shrink_by_bidirectional(Here, i, k).ok

\* a batched move of two elements has run
C27_Witness ==
  /\ ~aborted
  /\ last.op \in {"grow_by", "shrink_by"}
  /\ last.legal
  /\ last.r = 2

\* C28: for a valid index i and any count, add_parts_end(i, count) returns
\* with the boundaries that count add_part_end(i) calls give, and
\* add_parts_begin(i, count) with those that count add_part_begin(i) calls
\* give.
C28_BatchedAdds ==
  ~aborted =>
    \A i \in Indexes, count \in Counts :
      i < parts_count(boundaries_) =>
        /\ add_part_end_times(Here, i, count).ok
        /\ add_parts_end(Here, i, count) = add_part_end_times(Here, i, count)
        /\ parts_count(add_parts_end(Here, i, count).b) = parts_count(boundaries_) + count
        /\ add_part_begin_times(Here, i, count).ok
        /\ add_parts_begin(Here, i, count) = add_part_begin_times(Here, i, count)
        /\ parts_count(add_parts_begin(Here, i, count).b) = parts_count(boundaries_) + count

\* two parts were added in one call to a part that holds an element
C28_Witness ==
  /\ ~aborted
  /\ last.op \in {"add_parts_end", "add_parts_begin"}
  /\ last.legal
  /\ last.r = 2
  /\ \E k \in 0..(parts_count(boundaries_) - 1) : part_size(boundaries_, k) > 0

\* C29: a legal add_part_begin(i) returns with one more part, an empty
\* part i, and the bounds of the old part i at index i+1; a legal
\* add_part_end(i) returns with one more part, part i with its old bounds
\* and an empty part i+1; in both, the parts before i keep their bounds,
\* the parts after i keep theirs one index higher, and the sum of the
\* sizes is unchanged.
C29_AddPartEffect ==
  [][(last'.op \in {"add_part_begin", "add_part_end"} /\ last'.legal) =>
       LET i == last'.h
           k == parts_count(boundaries_)
           fresh == IF last'.op = "add_part_begin" THEN i ELSE i + 1
           kept == IF last'.op = "add_part_begin" THEN i + 1 ELSE i
       IN /\ ~aborted'
          /\ parts_count(boundaries_') = k + 1
          /\ is_part_empty(boundaries_', fresh)
          /\ part(boundaries_', kept) = part(boundaries_, i)
          /\ \A j \in 0..(k - 1) :
               /\ j < i => part(boundaries_', j) = part(boundaries_, j)
               /\ j > i => part(boundaries_', j + 1) = part(boundaries_, j)
          /\ SumSizes(boundaries_', k + 1) = SumSizes(boundaries_, k)]_vars

\* a part was added in front of a part that holds an element and follows
\* another part
C29_Witness ==
  /\ ~aborted
  /\ last.op = "add_part_begin"
  /\ last.legal
  /\ last.h = 1
  /\ parts_count(boundaries_) = 3
  /\ part_size(boundaries_, 2) > 0

\* ----------------------------------------------------------- algorithms
\* a partitioned sequence is [b |-> boundaries, d |-> elements, ok |-> no
\* PRECONDITION failed]

Partitioned(b, d) == [b |-> b, d |-> d, ok |-> TRUE]

\* an iter_swap that loses the element at x
iter_swap_overwrite(d, x, y) == [d EXCEPT ![x + 1] = d[y + 1]]

\* std::iter_swap on the elements at the 0-based indexes x and y
iter_swap(d, x, y) == [d EXCEPT ![x + 1] = d[y + 1], ![y + 1] = d[x + 1]]

\* a swap_first that only assigns the first element of part j to part i
swap_first_assign(p, i, j) ==
  IF ~p.ok THEN p
  ELSE IF ~(i < parts_count(p.b)) THEN [p EXCEPT !.ok = FALSE]
  ELSE IF ~(j < parts_count(p.b)) THEN [p EXCEPT !.ok = FALSE]
  ELSE IF is_part_empty(p.b, i) THEN [p EXCEPT !.ok = FALSE]
  ELSE IF is_part_empty(p.b, j) THEN [p EXCEPT !.ok = FALSE]
  ELSE [p EXCEPT !.d[part(p.b, i)[1] + 1] = p.d[part(p.b, j)[1] + 1]]

swap_first(p, i, j) ==
  IF ~p.ok THEN p
  ELSE IF ~(i < parts_count(p.b)) THEN [p EXCEPT !.ok = FALSE]
  ELSE IF ~(j < parts_count(p.b)) THEN [p EXCEPT !.ok = FALSE]
  ELSE IF is_part_empty(p.b, i) THEN [p EXCEPT !.ok = FALSE]
  ELSE IF is_part_empty(p.b, j) THEN [p EXCEPT !.ok = FALSE]
  ELSE [p EXCEPT !.d = iter_swap(p.d, part(p.b, i)[1], part(p.b, j)[1])]

\* the documented preconditions of swap_first(p, i, j)
swap_first_legal(b, i, j) ==
  /\ i < parts_count(b)
  /\ j < parts_count(b)
  /\ ~is_part_empty(b, i)
  /\ ~is_part_empty(b, j)

SwapFirst ==
  \E i \in Indexes, j \in Indexes :
    /\ ~aborted
    /\ LET s == swap_first(Partitioned(boundaries_, data), i, j)
           t == [Now EXCEPT !.b = s.b, !.ok = s.ok, !.r = j]
       IN /\ boundaries_' = s.b
          /\ data' = s.d
          /\ aborted' = ~s.ok
          /\ last' = Op("swap_first", i, swap_first_legal(boundaries_, i, j), t)
    /\ UNCHANGED <<n, parts_mapping_, cursors, made>>

\* a partitioning over a vector of up to MaxData distinct elements
InitAlgorithms ==
  /\ n \in 0..MaxData
  /\ data = [i \in 1..n |-> ElementAt(i)]
  /\ boundaries_ = algorithm_data(n).b
  /\ parts_mapping_ = algorithm_data(n).m
  /\ cursors = EmptyBag
  /\ aborted = FALSE
  /\ made = FALSE
  /\ last = [op |-> "algorithm_data", h |-> NoHandle, legal |-> TRUE,
             branch |-> "none", r |-> NoHandle]

\* swap_first, and the single-step partitioning calls that build the
\* partitionings it is given
NextAlgorithms ==
  \/ Grow
  \/ Shrink
  \/ AddPartEnd
  \/ AddPartBegin
  \/ RemovePart
  \/ SwapFirst

SpecAlgorithms == InitAlgorithms /\ [][NextAlgorithms]_vars

\* the bag of the elements of d
RECURSIVE Elements(_)
Elements(d) == IF d = <<>> THEN EmptyBag ELSE SetToBag({Head(d)}) (+) Elements(Tail(d))

\* C30: swap_first(p, i, j) on two non-empty parts in range returns with
\* the first elements of the parts i and j exchanged, every other element
\* where it was, the same elements overall, and the boundaries unchanged
\* (so with i = j the sequence is unchanged); when an index is out of
\* range or a part is empty the call terminates and changes nothing.
C30_SwapFirstEffect ==
  [][last'.op = "swap_first" =>
       LET i == last'.h
           j == last'.r
       IN IF last'.legal
          THEN LET x == part(boundaries_, i)[1] + 1
                   y == part(boundaries_, j)[1] + 1
               IN /\ ~aborted'
                  /\ boundaries_' = boundaries_
                  /\ Len(data') = Len(data)
                  /\ data'[x] = data[y]
                  /\ data'[y] = data[x]
                  /\ \A k \in 1..Len(data) : k \notin {x, y} => data'[k] = data[k]
                  /\ Elements(data') = Elements(data)
                  /\ i = j => data' = data
          ELSE /\ aborted'
               /\ boundaries_' = boundaries_
               /\ data' = data]_vars

\* the first elements of two different parts were exchanged, and one of
\* the parts holds a second element
C30_Witness ==
  /\ ~aborted
  /\ last.op = "swap_first"
  /\ last.legal
  /\ last.h # last.r
  /\ part_size(boundaries_, last.h) = 2
  /\ data[part(boundaries_, last.h)[1] + 1] # ElementAt(part(boundaries_, last.h)[1] + 1)

\* C31: on every partitioning and for every pair of non-empty parts i, j in
\* range (equal or distinct), swap_first(p, i, j) applied twice returns
\* both times and leaves the sequence and the boundaries as they were.
C31_SwapFirstInvolution ==
  ~aborted =>
    \A i \in Indexes, j \in Indexes :
      swap_first_legal(boundaries_, i, j) =>
        LET once == swap_first(Partitioned(boundaries_, data), i, j)
            twice == swap_first(once, i, j)
        IN /\ once.ok
           /\ i # j => once.d # data
           /\ twice.ok
           /\ twice.d = data
           /\ twice.b = boundaries_

\* the second of two swaps of the first elements of two different parts
\* has put the sequence back
C31_Witness ==
  /\ ~aborted
  /\ last.op = "swap_first"
  /\ last.legal
  /\ last.h # last.r
  /\ n = MaxData
  /\ data = [k \in 1..n |-> ElementAt(k)]

\* ------------------------------------------------------ table structure

\* the indexes (from 1) at which the sequences s and t of equal length differ
Changed(s, t) == {k \in 1..Len(s) : s[k] # t[k]}

C33_CopyStructure ==
  [][(last'.op = "algorithm_data::copy_iterator" /\ valid(parts_mapping_, last'.h)) =>
       LET h == last'.h
           p == parts_mapping_[h + 1]
       IN /\ ~aborted'
          /\ parts_count(boundaries_') = parts_count(boundaries_) + 1
          /\ is_part_empty(boundaries_', p)
          /\ p < parts_count(boundaries_) => part(boundaries_', p + 1) = part(boundaries_, p)
          /\ \A g \in LiveRows(parts_mapping_) :
               parts_mapping_'[g + 1] =
                 IF parts_mapping_[g + 1] >= p THEN parts_mapping_[g + 1] + 1
                                              ELSE parts_mapping_[g + 1]
          /\ parts_mapping_'[h + 1] = p + 1
          /\ last'.r \notin LiveRows(parts_mapping_)
          /\ parts_mapping_'[last'.r + 1] = p]_vars

\* C34: in every state of a table used through cursors, row 0 is live,
\* row 1 is live and holds parts_count(), every other live row holds a
\* part index below parts_count(), and no cursor holds a handle bound to
\* the sentinel.
C34_TableWellFormed ==
  ~aborted =>
    /\ Len(parts_mapping_) >= 2
    /\ {0, 1} \subseteq LiveRows(parts_mapping_)
    /\ parts_mapping_[2] = parts_count(boundaries_)
    /\ Resolve(1) = n
    /\ \A h \in LiveRows(parts_mapping_) \ {1} :
         parts_mapping_[h + 1] < parts_count(boundaries_)
    /\ \A o \in Owners :
         valid(parts_mapping_, o.iterator_index_) =>
           parts_mapping_[o.iterator_index_ + 1] # parts_count(boundaries_)

\* a cursor has moved back in a table with two user handles and as many
\* parts as the bound allows
C34_Witness ==
  /\ ~aborted
  /\ last.op = "decrement"
  /\ Cardinality(UserRows(parts_mapping_)) = 2
  /\ parts_mapping_[2] = MaxParts

\* C35: in every state of a table used through cursor copy, destroy,
\* increment and decrement, handle 0 resolves to the range start and
\* boundaries_[0] is the range start; no returning increment of a cursor
\* takes the simple branch for a handle bound to part 0.
C35_StartNeverMoves ==
  ~aborted =>
    /\ boundaries_[1] = 0
    /\ base_ok(boundaries_, parts_mapping_, 0)
    /\ Resolve(0) = 0
    /\ \A o \in Owners :
         LET h == o.iterator_index_ IN
         (valid(parts_mapping_, h) /\ parts_mapping_[h + 1] = 0) =>
           increment(Now, h).branch # "simple"

\* a cursor bound to part 0 has been stepped forward through the skipping
\* branch, which bound handle 0 to part 0
C35_Witness ==
  /\ ~aborted
  /\ last.op = "increment"
  /\ last.branch = "swap"
  /\ parts_mapping_[1] = 0
  /\ ~is_part_empty(boundaries_, 0)

\* -------------------------------------------------------- index checks

\* C36: grow(i), grow_by(i, k), shrink(i) and shrink_by(i, k) called with
\* an index i that is not a part index with a successor part (the largest
\* size_t value included, where i + 1 wraps to 0) terminate and leave
\* every boundary as it was.
C36_IndexCheckRejects ==
  [][(last'.op \in {"grow", "grow_by", "shrink", "shrink_by"} /\ ~has_next(last'.h)) =>
       /\ aborted'
       /\ boundaries_' = boundaries_]_vars

\* ----------------------------------------------------------- round trip

\* no destroy_iterator has written a tombstone on this table: every row is
\* live, and every part is the part of one row (each copy_iterator adds one
\* row and one part, each destroy takes one live row away for good)
NoneDestroyed ==
  /\ Tombstones(parts_mapping_) = {}
  /\ parts_count(boundaries_) = Len(parts_mapping_) - 1

\* every live row of t resolves to the position it resolves to now
SamePositions(t) ==
  \A g \in LiveRows(parts_mapping_) :
    /\ base_ok(t.b, t.m, g)
    /\ base(t.b, t.m, g) = Resolve(g)

C38_TableSizeBounded ==
  [][/\ Len(parts_mapping_') >= Len(parts_mapping_)
     /\ Len(parts_mapping_') > Len(parts_mapping_) =>
          /\ Len(parts_mapping_') = Len(parts_mapping_) + 1
          /\ Tombstones(parts_mapping_) = {}
          /\ Tombstones(parts_mapping_') = {}
          /\ Cardinality(LiveRows(parts_mapping_')) = Len(parts_mapping_')
     /\ (last'.op \in {"copy", "create_begin_iterator"} /\ ~aborted') =>
          parts_count(boundaries_') = parts_count(boundaries_) + 1]_vars

\* a cursor was created in the row a destroyed cursor had freed: three
\* parts, and still three rows
C38_Witness ==
  /\ ~aborted
  /\ last.op = "create_begin_iterator"
  /\ Len(parts_mapping_) = 3
  /\ parts_count(boundaries_) = 3
  /\ Tombstones(parts_mapping_) = {}

\* ------------------------------------------------------------- transfers

\* C39: transfer_to_prev(i) with 0 < i < parts_count() returns with part i
\* empty and part i-1 larger by the old size of part i; transfer_to_next(i)
\* with i < parts_count() - 1 returns with part i empty and part i+1 larger
\* by the old size of part i; in both, parts_count(), the bounds of every
\* other part and the sum of the sizes are unchanged; with any other index
\* the call terminates and changes nothing.
C39_TransferEffect ==
  [][last'.op \in {"transfer_to_prev", "transfer_to_next"} =>
       LET i == last'.h
           k == parts_count(boundaries_)
           to == IF last'.op = "transfer_to_prev" THEN i - 1 ELSE i + 1
       IN IF last'.legal
          THEN /\ ~aborted'
               /\ parts_count(boundaries_') = k
               /\ is_part_empty(boundaries_', i)
               /\ part_size(boundaries_', to)
                    = part_size(boundaries_, to) + part_size(boundaries_, i)
               /\ \A j \in 0..(k - 1) :
                    j \notin {i, to} => part(boundaries_', j) = part(boundaries_, j)
               /\ SumSizes(boundaries_', k) = SumSizes(boundaries_, k)
          ELSE /\ aborted'
               /\ boundaries_' = boundaries_]_vars

\* ------------------------------------------------------------ tombstones

\* C40: copy_iterator(h) on a live handle h leaves every row that was a
\* tombstone a tombstone, except the lowest one, which is the row it
\* returns; no tombstone is incremented by the shift.
C40_TombstonesSurviveCopy ==
  [][(last'.op = "algorithm_data::copy_iterator" /\ valid(parts_mapping_, last'.h)
        /\ Tombstones(parts_mapping_) # {}) =>
       /\ ~aborted' =>
            /\ last'.r = Lowest(Tombstones(parts_mapping_))
            /\ Tombstones(parts_mapping_') = Tombstones(parts_mapping_) \ {last'.r}
       /\ aborted' => Tombstones(parts_mapping_') = Tombstones(parts_mapping_)]_vars

\* a copy has reused the lower of two tombstones
C40_Witness ==
  /\ ~aborted
  /\ last.op = "algorithm_data::copy_iterator"
  /\ Tombstones(parts_mapping_) # {}
  /\ last.r < Lowest(Tombstones(parts_mapping_))

====
